---- MODULE Spec2Model ----
(***************************************************************************)
(* lmserver: an OpenAI-compatible gateway in front of llama-server.         *)
(*                                                                         *)
(* The model follows src/lmserver/proxy.py (the shared asyncio.Semaphore    *)
(* and the LlamaServerProxy methods) and src/lmserver/main.py (the FastAPI  *)
(* handlers).  Each asyncio task runs without interruption between two      *)
(* suspension points, so one action is one such run of one task: the       *)
(* handler code from the event that resumes it to its next await.           *)
(***************************************************************************)
EXTENDS Integers, Sequences, FiniteSets, TLC

\* ---------------------------------------------------------------- bounds
NumCalls    == 3   \* inbound requests of one run
MaxCapacity == 2   \* largest max_concurrent_requests tried
MaxChunks   == 1   \* chunks a backend stream produces at most
RequestTimeout == 2   \* settings.request_timeout, in units of time

\* how long a call's clock is followed
MaxElapsed == RequestTimeout + 1

Calls == 1..NumCalls

\* ------------------------------------------------------------- constants
GatewayErrorStatus == 502   \* main.py: HTTPException(status_code=502, ...)
OkStatus           == 200   \* JSONResponse / StreamingResponse default
UnhandledStatus    == 500   \* an exception no handler catches
ValidationErrorStatus == 422   \* the framework rejects a body the request model refuses

\* the error status the backend answers with, and the body it sends with it
BackendErrorStatuses == {500}
ErrorBody(s) == "oom"

Kinds == {"unary", "stream", "fallback"}

\* settings.default_model
DefaultModel == "gpt-oss-20b"

VARIABLES
    capacity,     \* settings.max_concurrent_requests, fixed at start
    value,        \* Semaphore._value
    waiters,      \* Semaphore._waiters: the deque of waiting calls' futures
    fut,          \* state of each call's waiter future
    must_cancel,  \* tasks cancelled after their future was already resolved
    pc,           \* where each call's task is
    kind,         \* which handler / proxy method serves the call
    conn,         \* the call's backend connection
    acquires,     \* completed acquire() per call
    releases,     \* release() per call
    chunks,       \* chunks yielded to the consumer per streaming call
    response,     \* what the client got: status and error detail
    answer,       \* what the backend did with the call's request
    advisory,     \* the last reply of an advisory endpoint (/health, ...)
    produced,     \* chunks read from the backend stream, per call
    delivered,    \* chunks yielded to the consumer, per call
    elapsed,      \* time since the call's backend request began
    idle,         \* time the call has waited for the backend's next bytes
    request,      \* the inbound chat-completion body being handled
    forwarded,    \* the body built from it for the backend
    lifecycle     \* lifespan: startup, DNS registration, serving

\* chunk contents of the streams
dataVars == <<produced, delivered>>
\* the clocks of the backend calls
timeVars == <<elapsed, idle>>
\* request-body building and application startup
sideVars == <<request, forwarded, lifecycle>>

vars == <<capacity, value, waiters, fut, must_cancel, pc, kind, conn,
          acquires, releases, chunks, response, answer, advisory,
          produced, delivered, elapsed, idle, request, forwarded, lifecycle>>

\* ------------------------------------------------------------ semaphore

Min(S) == CHOOSE x \in S : \A y \in S : x <= y

\* Semaphore.locked(): no free slot, or a waiter that is not cancelled
Locked(v, f, w) ==
    v = 0 \/ \E i \in 1..Len(w) : f[w[i]] # "cancelled"

\* a wake-up that hands the slot over without counting it
WakeUpNextNoCount(v, f, w) ==
    LET idx == {i \in 1..Len(w) : f[w[i]] = "pending"}
    IN  IF idx = {} THEN [value |-> v, fut |-> f]
        ELSE [value |-> v, fut |-> [f EXCEPT ![w[Min(idx)]] = "done"]]

\* a wake-up that serves the waiter that came last
WakeUpNextLast(v, f, w) ==
    LET idx == {i \in 1..Len(w) : f[w[i]] = "pending"}
    IN  IF idx = {} THEN [value |-> v, fut |-> f]
        ELSE [value |-> v - 1,
              fut |-> [f EXCEPT ![w[CHOOSE i \in idx : \A j \in idx : j <= i]] = "done"]]

\* a wake-up that also picks a cancelled future and so spends the slot on it
WakeUpNextAny(v, f, w) ==
    LET idx == {i \in 1..Len(w) : f[w[i]] \in {"pending", "cancelled"}}
    IN  IF idx = {} THEN [value |-> v, fut |-> f]
        ELSE [value |-> v - 1,
              fut |-> [f EXCEPT ![w[Min(idx)]] =
                          IF @ = "pending" THEN "done" ELSE @]]

\* Semaphore._wake_up_next(): hand a slot to the first waiter not yet done
WakeUpNext(v, f, w) ==
    LET idx == {i \in 1..Len(w) : f[w[i]] = "pending"}
    IN  IF idx = {} THEN [value |-> v, fut |-> f]
        ELSE [value |-> v - 1, fut |-> [f EXCEPT ![w[Min(idx)]] = "done"]]

\* Semaphore.release()
Release(v, f, w) == WakeUpNext(v + 1, f, w)

\* deque.remove(fut)
Remove(w, c) == SelectSeq(w, LAMBDA x : x # c)

Range(s) == {s[i] : i \in 1..Len(s)}

\* ------------------------------------------------ backend answers, errors

NoAnswer == [type |-> "none", status |-> 0, body |-> ""]

\* what the backend can do with one request
BackendAnswers ==
    {[type |-> "json", status |-> OkStatus, body |-> "payload"],
     [type |-> "not_json", status |-> OkStatus, body |-> "text"],
     [type |-> "network", status |-> 0, body |-> ""]}
    \cup {[type |-> "json", status |-> s, body |-> ErrorBody(s)] :
            s \in BackendErrorStatuses}

IsErrorStatus(a) == a.type # "network" /\ a.status \in BackendErrorStatuses

NoException == [type |-> "none", status |-> 0, body |-> ""]

\* the exception the guarded block of chat_completions ends with:
\* client.post raises RequestError, raise_for_status raises HTTPStatusError
\* (which keeps the response: e.response.status_code, e.response.text),
\* response.json() raises JSONDecodeError on a body that is not JSON
PostException(a) ==
    IF a.type = "network" THEN [type |-> "RequestError", status |-> 0, body |-> ""]
    ELSE IF IsErrorStatus(a)
         THEN [type |-> "HTTPStatusError", status |-> a.status, body |-> a.body]
    ELSE IF a.type = "not_json"
         THEN [type |-> "JSONDecodeError", status |-> 0, body |-> ""]
    ELSE NoException

\* the exception the guarded block of chat_completions_stream ends with when
\* the stream is opened: the body is not parsed on this path
StreamOpenException(a) ==
    IF a.type = "network" THEN [type |-> "RequestError", status |-> 0, body |-> ""]
    ELSE IF IsErrorStatus(a)
         THEN [type |-> "HTTPStatusError", status |-> a.status, body |-> a.body]
    ELSE NoException

\* f"{status_code}"
StatusText(s) ==
    CASE s = 500 -> "500" [] s = 503 -> "503" [] s = 200 -> "200"
      [] s = 502 -> "502" [] OTHER -> "0"

\* str(e): the exception's message.  httpx builds the message of an
\* HTTPStatusError from the status code, the reason phrase and the URL.
StrExc(e) ==
    CASE e.type = "HTTPStatusError" ->
            <<"Server error", StatusText(e.status), "for url",
              "/v1/chat/completions">>
      [] e.type = "RequestError" -> <<"All connection attempts failed">>
      [] e.type = "JSONDecodeError" -> <<"Expecting value">>
      [] OTHER -> <<>>

NoResponse == [status |-> 0, detail |-> <<>>]

\* a handler that catches only the backend's HTTP errors
UnaryReplyUncaught(e) ==
    IF e.type = "none" THEN [status |-> OkStatus, detail |-> <<>>]
    ELSE IF e.type = "HTTPStatusError"
         THEN [status |-> GatewayErrorStatus,
               detail |-> <<"Backend error: ">> \o StrExc(e)]
    ELSE [status |-> UnhandledStatus, detail |-> <<>>]

\* main.chat_completions, unary branch: the result of proxy.chat_completions
\* becomes a JSONResponse, any Exception becomes HTTPException(502)
UnaryReply(e) ==
    IF e.type = "none" THEN [status |-> OkStatus, detail |-> <<>>]
    ELSE [status |-> GatewayErrorStatus,
          detail |-> <<"Backend error: ">> \o StrExc(e)]

\* the final state of a call whose guarded block ended with exception e
Outcome(e) ==
    CASE e.type = "none" -> "completed"
      [] e.type = "HTTPStatusError" -> "backend_error"
      [] e.type = "RequestError" -> "backend_unavailable"
      [] OTHER -> "decode_error"

FinalStates == {"completed", "backend_error", "backend_unavailable",
                "decode_error", "cancelled"}

\* a chat-completion call that holds its permit and talks to the backend
InFlightStates == {"inflight", "opening", "reading", "yielded", "dropped"}

IsChat(c) == kind[c] \in {"unary", "stream"}

InFlight == {c \in Calls : IsChat(c) /\ pc[c] \in InFlightStates}

\* -------------------------------------------------------- advisory replies

NoAdvisory == [endpoint |-> "none", raised |-> FALSE, status |-> "", http |-> 0]

\* proxy.health_check: GET {backend}/health, then response.json(); only
\* httpx.RequestError is caught.  main.health wraps the payload; an
\* exception it does not catch ends the request with an internal error.
HealthReply(a) ==
    IF a.type = "network"
    THEN [endpoint |-> "health", raised |-> FALSE, status |-> "error", http |-> OkStatus]
    ELSE IF a.type = "not_json"
    THEN [endpoint |-> "health", raised |-> TRUE, status |-> "", http |-> UnhandledStatus]
    ELSE [endpoint |-> "health", raised |-> FALSE, status |-> "ok", http |-> OkStatus]

\* proxy.list_models: GET {backend}/v1/models, then response.json() with no
\* look at the status; only httpx.RequestError is caught, and answered with
\* the one-entry list naming the default model.  main.list_models returns
\* what the proxy returns; an exception ends the request with an internal
\* error.
ListModelsReply(a) ==
    IF a.type = "network"
    THEN [endpoint |-> "models", backend |-> a, raised |-> FALSE, http |-> OkStatus,
          source |-> "synthetic", body |-> "", data |-> <<DefaultModel>>]
    ELSE IF a.type = "not_json"
    THEN [endpoint |-> "models", backend |-> a, raised |-> TRUE, http |-> UnhandledStatus,
          source |-> "none", body |-> "", data |-> <<>>]
    ELSE [endpoint |-> "models", backend |-> a, raised |-> FALSE, http |-> OkStatus,
          source |-> "backend", body |-> a.body, data |-> <<>>]

\* main.queue_status: the configured capacity and Semaphore._value as read
QueueStatusReply ==
    [endpoint |-> "queue_status", max_concurrent |-> capacity,
     available_slots |-> value]

\* main.proxy_fallback: the backend's JSON and status are passed on; any
\* exception becomes HTTPException(502, detail=str(e))
FallbackReply(a) ==
    IF a.type = "json" THEN [status |-> a.status, detail |-> <<>>]
    ELSE [status |-> GatewayErrorStatus,
          detail |-> StrExc(PostException(a))]

FallbackOutcome(a) ==
    IF a.type = "json" THEN "completed" ELSE Outcome(PostException(a))

\* ----------------------------------------------------------------- Init

\* A JSON body is written field by field: "absent" for a key that is not in
\* the body, "null" for JSON null, otherwise the value's text.  message_name
\* is a key beside role and content in an entry of messages.
NoRequest == [present |-> FALSE, model |-> "absent", temperature |-> "absent",
              stream |-> "absent", extra |-> "absent", message_name |-> "absent"]
NoBody == [sent |-> FALSE]

\* the bodies ChatCompletionRequest accepts, over one declared optional
\* field, stream, one unrecognised top-level field and one unrecognised
\* message key
Requests ==
    [present : {TRUE},
     model : {"absent", "null", "", "llama-3"},
     temperature : {"absent", "null", "0.7"},
     stream : {"absent", "false", "true"},
     extra : {"absent", "null", "x"},
     message_name : {"absent", "bob"}]

\* request.model_dump(exclude_none=True): fields that are None are left
\* out, stream has its default, ChatMessage keeps role and content only
ModelDump(req) ==
    [model |-> IF req.model = "null" THEN "absent" ELSE req.model,
     temperature |-> IF req.temperature = "null" THEN "absent" ELSE req.temperature,
     stream |-> IF req.stream = "absent" THEN "false" ELSE req.stream,
     extra |-> IF req.extra = "null" THEN "absent" ELSE req.extra,
     message_name |-> "absent"]

\* if not request_body.get("model"): request_body["model"] = default_model
BuildBody(req) ==
    LET dumped == ModelDump(req)
    IN  [sent |-> TRUE,
         model |-> IF dumped.model \in {"absent", ""} THEN DefaultModel ELSE dumped.model,
         temperature |-> dumped.temperature,
         stream |-> dumped.stream,
         extra |-> dumped.extra,
         message_name |-> dumped.message_name]

\* lifespan has run to its yield: the application serves requests
Serving == [phase |-> "serving", dns_enabled |-> FALSE, dns_posts |-> 0,
            registered |-> TRUE, logged |-> "disabled"]

\* proxy.get_semaphore builds Semaphore(settings.max_concurrent_requests);
\* no call has arrived
Gateway ==
    /\ capacity \in 1..MaxCapacity
    /\ value = capacity
    /\ waiters = <<>>
    /\ fut = [c \in Calls |-> "none"]
    /\ must_cancel = {}
    /\ pc = [c \in Calls |-> "pending"]
    /\ kind = [c \in Calls |-> "none"]
    /\ conn = [c \in Calls |-> "none"]
    /\ acquires = [c \in Calls |-> 0]
    /\ releases = [c \in Calls |-> 0]
    /\ chunks = [c \in Calls |-> 0]
    /\ response = [c \in Calls |-> NoResponse]
    /\ answer = [c \in Calls |-> NoAnswer]
    /\ advisory = NoAdvisory
    /\ produced = [c \in Calls |-> <<>>]
    /\ delivered = [c \in Calls |-> <<>>]
    /\ elapsed = [c \in Calls |-> 0]
    /\ idle = [c \in Calls |-> 0]

\* the application has started with registration disabled (the default of
\* config.dns_register_on_startup) and no request body is being built
Init ==
    /\ Gateway
    /\ request = NoRequest
    /\ forwarded = NoBody
    /\ lifecycle = Serving

\* -------------------------------------------------------------- actions

\* first guarded statement of the proxy method serving the call
EntryState(k) == IF k = "stream" THEN "opening" ELSE "inflight"

\* leaving "async with semaphore" (and the httpx contexts inside it):
\* the backend connection is closed, then Semaphore.release() runs
ExitGuarded(c) ==
    LET r == Release(value, fut, waiters)
    IN  /\ value' = r.value
        /\ fut' = r.fut
        /\ releases' = [releases EXCEPT ![c] = @ + 1]
        /\ conn' = [conn EXCEPT ![c] = "closed"]

\* POST /v1/chat/completions, or GET/POST /v1/{path}: the handler runs up to
\* its first suspension.  A chat call enters "async with semaphore": with a
\* free slot and nobody waiting it takes the slot and starts the backend
\* call, otherwise it appends its future to the deque and waits.  A streamed
\* reply has its 200 head sent before the generator first runs.  The
\* fallback route opens its backend request directly.
Arrive(c, k) ==
    /\ pc[c] = "pending"
    /\ \A d \in Calls : d < c => pc[d] # "pending"
    /\ kind' = [kind EXCEPT ![c] = k]
    /\ response' = IF k = "stream"
                   THEN [response EXCEPT ![c] = [status |-> OkStatus, detail |-> <<>>]]
                   ELSE response
    /\ IF k = "fallback"
       THEN /\ pc' = [pc EXCEPT ![c] = "inflight"]
            /\ conn' = [conn EXCEPT ![c] = "open"]
            /\ UNCHANGED <<value, waiters, fut, acquires>>
       ELSE IF ~Locked(value, fut, waiters)
       THEN /\ value' = value - 1
            /\ acquires' = [acquires EXCEPT ![c] = @ + 1]
            /\ pc' = [pc EXCEPT ![c] = EntryState(k)]
            /\ conn' = [conn EXCEPT ![c] = "open"]
            /\ UNCHANGED <<waiters, fut>>
       ELSE /\ waiters' = Append(waiters, c)
            /\ fut' = [fut EXCEPT ![c] = "pending"]
            /\ pc' = [pc EXCEPT ![c] = "queued"]
            /\ UNCHANGED <<value, acquires, conn>>
    /\ UNCHANGED <<capacity, must_cancel, releases, chunks, answer, advisory,
                   dataVars, timeVars, sideVars>>

\* the task of a queued call is cancelled (client gone, shutdown):
\* Task.cancel() cancels the future it waits on, or, when that future
\* already has its result, marks the task to be cancelled at its next step
CancelQueued(c) ==
    /\ pc[c] = "queued"
    /\ \/ /\ fut[c] = "pending"
          /\ fut' = [fut EXCEPT ![c] = "cancelled"]
          /\ UNCHANGED must_cancel
       \/ /\ fut[c] = "done"
          /\ c \notin must_cancel
          /\ must_cancel' = must_cancel \cup {c}
          /\ UNCHANGED fut
    /\ UNCHANGED <<capacity, value, waiters, pc, kind, conn, acquires,
                   releases, chunks, response, answer, advisory,
                   dataVars, timeVars, sideVars>>

\* a queued task that leaves acquire() without waking anybody
ResumeNoWake(c) ==
    /\ pc[c] = "queued"
    /\ fut[c] \in {"done", "cancelled"}
    /\ waiters' = Remove(waiters, c)
    /\ fut' = [fut EXCEPT ![c] = "none"]
    /\ IF fut[c] = "cancelled"
       THEN /\ pc' = [pc EXCEPT ![c] = "cancelled"]
            /\ UNCHANGED <<value, must_cancel, acquires, conn>>
       ELSE IF c \in must_cancel
       THEN /\ value' = value + 1
            /\ must_cancel' = must_cancel \ {c}
            /\ pc' = [pc EXCEPT ![c] = "cancelled"]
            /\ UNCHANGED <<acquires, conn>>
       ELSE /\ acquires' = [acquires EXCEPT ![c] = @ + 1]
            /\ pc' = [pc EXCEPT ![c] = EntryState(kind[c])]
            /\ conn' = [conn EXCEPT ![c] = "open"]
            /\ UNCHANGED <<value, must_cancel>>
    /\ UNCHANGED <<capacity, kind, releases, chunks, response, answer, advisory,
                   dataVars, timeVars, sideVars>>

\* the task of a queued call runs again, in Semaphore.acquire() after
\* "await fut": the future leaves the deque; a cancelled future raises
\* CancelledError; a cancellation that met a resolved future gives the slot
\* back and wakes the next waiter; otherwise the call holds its permit,
\* wakes the next waiter if a slot is free, and starts its backend call.
\* The future is local to acquire() and is gone when acquire() is left.
Resume(c) ==
    /\ pc[c] = "queued"
    /\ fut[c] \in {"done", "cancelled"}
    /\ waiters' = Remove(waiters, c)
    /\ IF fut[c] = "cancelled"
       THEN /\ pc' = [pc EXCEPT ![c] = "cancelled"]
            /\ fut' = [fut EXCEPT ![c] = "none"]
            /\ UNCHANGED <<value, must_cancel, acquires, conn>>
       ELSE IF c \in must_cancel
       THEN LET r == WakeUpNext(value + 1, fut, waiters')
            IN  /\ value' = r.value
                /\ fut' = [r.fut EXCEPT ![c] = "none"]
                /\ must_cancel' = must_cancel \ {c}
                /\ pc' = [pc EXCEPT ![c] = "cancelled"]
                /\ UNCHANGED <<acquires, conn>>
       ELSE LET r == IF value > 0 THEN WakeUpNext(value, fut, waiters')
                     ELSE [value |-> value, fut |-> fut]
            IN  /\ value' = r.value
                /\ fut' = [r.fut EXCEPT ![c] = "none"]
                /\ acquires' = [acquires EXCEPT ![c] = @ + 1]
                /\ pc' = [pc EXCEPT ![c] = EntryState(kind[c])]
                /\ conn' = [conn EXCEPT ![c] = "open"]
                /\ UNCHANGED must_cancel
    /\ UNCHANGED <<capacity, kind, releases, chunks, response, answer, advisory,
                   dataVars, timeVars, sideVars>>

\* a unary call that gives its permit back only when the backend call returns
UnaryFinishLeak(c, a) ==
    /\ pc[c] = "inflight"
    /\ kind[c] = "unary"
    /\ IF PostException(a).type = "none"
       THEN ExitGuarded(c)
       ELSE /\ conn' = [conn EXCEPT ![c] = "closed"]
            /\ UNCHANGED <<value, fut, releases>>
    /\ pc' = [pc EXCEPT ![c] = Outcome(PostException(a))]
    /\ response' = [response EXCEPT ![c] = UnaryReply(PostException(a))]
    /\ answer' = [answer EXCEPT ![c] = a]
    /\ UNCHANGED <<capacity, waiters, must_cancel, kind, acquires, chunks, advisory,
                   dataVars, timeVars, sideVars>>

\* the backend call of a unary chat completion ends: the guarded block is
\* left (by return or by exception), the permit released, and the handler
\* in main.py answers
UnaryFinish(c, a) ==
    /\ pc[c] = "inflight"
    /\ kind[c] = "unary"
    /\ ExitGuarded(c)
    /\ pc' = [pc EXCEPT ![c] = Outcome(PostException(a))]
    /\ response' = [response EXCEPT ![c] = UnaryReply(PostException(a))]
    /\ answer' = [answer EXCEPT ![c] = a]
    /\ UNCHANGED <<capacity, waiters, must_cancel, kind, acquires, chunks, advisory,
                   dataVars, timeVars, sideVars>>

\* the backend request of the fallback route ends; no permit is involved
FallbackFinish(c, a) ==
    /\ pc[c] = "inflight"
    /\ kind[c] = "fallback"
    /\ conn' = [conn EXCEPT ![c] = "closed"]
    /\ pc' = [pc EXCEPT ![c] = FallbackOutcome(a)]
    /\ response' = [response EXCEPT ![c] = FallbackReply(a)]
    /\ answer' = [answer EXCEPT ![c] = a]
    /\ UNCHANGED <<capacity, value, waiters, fut, must_cancel, kind, acquires,
                   releases, chunks, advisory,
                   dataVars, timeVars, sideVars>>

\* a stream that holds its permit only until the response head arrives
StreamOpenReleaseAtHead(c, a) ==
    /\ pc[c] = "opening"
    /\ a.type # "not_json"
    /\ answer' = [answer EXCEPT ![c] = a]
    /\ LET r == Release(value, fut, waiters)
       IN  /\ value' = r.value
           /\ fut' = r.fut
           /\ releases' = [releases EXCEPT ![c] = @ + 1]
    /\ IF StreamOpenException(a).type = "none"
       THEN /\ pc' = [pc EXCEPT ![c] = "reading"]
            /\ UNCHANGED conn
       ELSE /\ pc' = [pc EXCEPT ![c] = Outcome(StreamOpenException(a))]
            /\ conn' = [conn EXCEPT ![c] = "closed"]
    /\ UNCHANGED <<capacity, waiters, must_cancel, kind, acquires, chunks,
                   response, advisory,
                   dataVars, timeVars, sideVars>>

\* client.stream(...) returns the response head (or fails), then
\* raise_for_status: a good head starts the chunk loop with the permit
\* still held; a failure leaves the guarded block and releases it.  The
\* exception surfaces in the response's body iterator, after the handler
\* in main.py has returned and the 200 head is out.
StreamOpen(c, a) ==
    /\ pc[c] = "opening"
    /\ a.type # "not_json"
    /\ answer' = [answer EXCEPT ![c] = a]
    /\ IF StreamOpenException(a).type = "none"
       THEN /\ pc' = [pc EXCEPT ![c] = "reading"]
            /\ UNCHANGED <<value, fut, releases, conn>>
       ELSE /\ pc' = [pc EXCEPT ![c] = Outcome(StreamOpenException(a))]
            /\ ExitGuarded(c)
    /\ idle' = [idle EXCEPT ![c] = 0]
    /\ UNCHANGED <<capacity, waiters, must_cancel, kind, acquires, chunks,
                   response, advisory,
                   dataVars, elapsed, sideVars>>

\* the n-th chunk of a backend stream; chunks are told apart by position
BackendChunk(n) == n

\* "yield chunk": the bytes object read is the object yielded
Relay(chunk) == chunk

\* a chunk loop that reads one chunk ahead and yields the one before
StreamChunkReadAhead(c) ==
    /\ pc[c] = "reading"
    /\ chunks[c] < MaxChunks
    /\ chunks' = [chunks EXCEPT ![c] = @ + 1]
    /\ produced' = [produced EXCEPT ![c] = Append(@, BackendChunk(Len(@) + 1))]
    /\ delivered' = [delivered EXCEPT ![c] = SubSeq(produced[c], 1, Len(produced[c]))]
    /\ idle' = [idle EXCEPT ![c] = 0]
    /\ pc' = [pc EXCEPT ![c] = "yielded"]
    /\ UNCHANGED <<capacity, value, waiters, fut, must_cancel, kind, conn,
                   acquires, releases, response, answer, advisory,
                   elapsed, sideVars>>

\* response.aiter_bytes() delivers a chunk and the generator yields it;
\* the generator stays suspended at the yield until the consumer asks again
StreamChunk(c) ==
    /\ pc[c] = "reading"
    /\ chunks[c] < MaxChunks
    /\ chunks' = [chunks EXCEPT ![c] = @ + 1]
    /\ LET chunk == BackendChunk(Len(produced[c]) + 1)
       IN  /\ produced' = [produced EXCEPT ![c] = Append(@, chunk)]
           /\ delivered' = [delivered EXCEPT ![c] = Append(@, Relay(chunk))]
    /\ idle' = [idle EXCEPT ![c] = 0]
    /\ pc' = [pc EXCEPT ![c] = "yielded"]
    /\ UNCHANGED <<capacity, value, waiters, fut, must_cancel, kind, conn,
                   acquires, releases, response, answer, advisory,
                   elapsed, sideVars>>

\* the consumer has sent the chunk on and asks the generator for the next
ConsumerNext(c) ==
    /\ pc[c] = "yielded"
    /\ pc' = [pc EXCEPT ![c] = "reading"]
    /\ UNCHANGED <<capacity, value, waiters, fut, must_cancel, kind, conn,
                   acquires, releases, chunks, response, answer, advisory,
                   dataVars, timeVars, sideVars>>

\* the backend stream is exhausted: the generator returns
StreamEnd(c) ==
    /\ pc[c] = "reading"
    /\ pc' = [pc EXCEPT ![c] = "completed"]
    /\ ExitGuarded(c)
    /\ UNCHANGED <<capacity, waiters, must_cancel, kind, acquires, chunks,
                   response, answer, advisory,
                   dataVars, timeVars, sideVars>>

\* the connection breaks between chunks: httpx.RequestError, re-raised
StreamReadError(c) ==
    /\ pc[c] = "reading"
    /\ pc' = [pc EXCEPT ![c] = "backend_unavailable"]
    /\ answer' = [answer EXCEPT ![c] = [type |-> "network", status |-> 0, body |-> ""]]
    /\ ExitGuarded(c)
    /\ UNCHANGED <<capacity, waiters, must_cancel, kind, acquires, chunks,
                   response, advisory,
                   dataVars, timeVars, sideVars>>

\* the task is cancelled while it awaits the backend (unary post, stream
\* head, next chunk, fallback request): CancelledError is raised at the
\* await, no except clause matches it, every context manager is left
CancelInFlight(c) ==
    /\ pc[c] \in {"inflight", "opening", "reading"}
    /\ pc' = [pc EXCEPT ![c] = "cancelled"]
    /\ IF IsChat(c)
       THEN ExitGuarded(c)
       ELSE /\ conn' = [conn EXCEPT ![c] = "closed"]
            /\ UNCHANGED <<value, fut, releases>>
    /\ UNCHANGED <<capacity, waiters, must_cancel, kind, acquires, chunks,
                   response, answer, advisory,
                   dataVars, timeVars, sideVars>>

\* the consumer stops pulling while the generator is suspended at its yield
ConsumerStops(c) ==
    /\ pc[c] = "yielded"
    /\ pc' = [pc EXCEPT ![c] = "dropped"]
    /\ UNCHANGED <<capacity, value, waiters, fut, must_cancel, kind, conn,
                   acquires, releases, chunks, response, answer, advisory,
                   dataVars, timeVars, sideVars>>

\* a dropped generator whose permit is given back only after the chunk loop
GeneratorCloseNoRelease(c) ==
    /\ pc[c] = "dropped"
    /\ pc' = [pc EXCEPT ![c] = "cancelled"]
    /\ conn' = [conn EXCEPT ![c] = "closed"]
    /\ UNCHANGED <<capacity, value, waiters, fut, must_cancel, kind, acquires,
                   releases, chunks, response, answer, advisory,
                   dataVars, timeVars, sideVars>>

\* the dropped generator is closed: GeneratorExit is raised at the yield,
\* no except clause matches it, every context manager is left
GeneratorClose(c) ==
    /\ pc[c] = "dropped"
    /\ pc' = [pc EXCEPT ![c] = "cancelled"]
    /\ ExitGuarded(c)
    /\ UNCHANGED <<capacity, waiters, must_cancel, kind, acquires, chunks,
                   response, answer, advisory,
                   dataVars, timeVars, sideVars>>

\* GET /health
HealthCheck(a) ==
    /\ advisory' = HealthReply(a)
    /\ UNCHANGED <<capacity, value, waiters, fut, must_cancel, pc, kind, conn,
                   acquires, releases, chunks, response, answer,
                   dataVars, timeVars, sideVars>>

\* GET /v1/models
ListModels(a) ==
    /\ advisory' = ListModelsReply(a)
    /\ UNCHANGED <<capacity, value, waiters, fut, must_cancel, pc, kind, conn,
                   acquires, releases, chunks, response, answer,
                   dataVars, timeVars, sideVars>>

\* a status endpoint that reads the count only when the gate is not locked
QueueStatusLocked ==
    /\ ~Locked(value, fut, waiters)
    /\ advisory' = QueueStatusReply
    /\ UNCHANGED <<capacity, value, waiters, fut, must_cancel, pc, kind, conn,
                   acquires, releases, chunks, response, answer,
                   dataVars, timeVars, sideVars>>

\* GET /v1/queue/status: no await, no acquire; reads the semaphore's count
QueueStatus ==
    /\ advisory' = QueueStatusReply
    /\ UNCHANGED <<capacity, value, waiters, fut, must_cancel, pc, kind, conn,
                   acquires, releases, chunks, response, answer,
                   dataVars, timeVars, sideVars>>

\* chat_completions up to its try: the body for the backend is built from
\* the validated request
BuildRequestBody ==
    /\ request.present
    /\ ~forwarded.sent
    /\ forwarded' = BuildBody(request)
    /\ UNCHANGED <<capacity, value, waiters, fut, must_cancel, pc, kind, conn,
                   acquires, releases, chunks, response, answer, advisory,
                   dataVars, timeVars, request, lifecycle>>

\* dns.register_dns once the registration API has answered the POST (or the
\* POST has failed): raise_for_status, then True; HTTPStatusError and
\* RequestError are logged and answered with False
RegisterOutcome(a) ==
    IF a.type = "network" THEN [registered |-> FALSE, logged |-> "network_error"]
    ELSE IF IsErrorStatus(a) THEN [registered |-> FALSE, logged |-> "status_error"]
    ELSE [registered |-> TRUE, logged |-> "registered"]

\* lifespan from its first line to "await register_dns()": the semaphore is
\* built; with registration disabled register_dns returns at once and the
\* application serves, otherwise the one POST to /add-record/ is sent
StartUp ==
    /\ lifecycle.phase = "starting"
    /\ lifecycle' =
          IF lifecycle.dns_enabled
          THEN [lifecycle EXCEPT !.phase = "registering", !.dns_posts = @ + 1]
          ELSE [lifecycle EXCEPT !.phase = "serving", !.registered = TRUE,
                                 !.logged = "disabled"]
    /\ UNCHANGED <<capacity, value, waiters, fut, must_cancel, pc, kind, conn,
                   acquires, releases, chunks, response, answer, advisory,
                   dataVars, timeVars, request, forwarded>>

\* a lifespan that gives up when register_dns returns False
RegistrationAnswerStrict(a) ==
    /\ lifecycle.phase = "registering"
    /\ lifecycle' = [lifecycle EXCEPT
                        !.phase = IF RegisterOutcome(a).registered
                                  THEN "serving" ELSE "failed",
                        !.registered = RegisterOutcome(a).registered,
                        !.logged = RegisterOutcome(a).logged]
    /\ UNCHANGED <<capacity, value, waiters, fut, must_cancel, pc, kind, conn,
                   acquires, releases, chunks, response, answer, advisory,
                   dataVars, timeVars, request, forwarded>>

\* the POST of register_dns ends; lifespan ignores the returned flag and
\* yields: the application serves
RegistrationAnswer(a) ==
    /\ lifecycle.phase = "registering"
    /\ lifecycle' = [lifecycle EXCEPT
                        !.phase = "serving",
                        !.registered = RegisterOutcome(a).registered,
                        !.logged = RegisterOutcome(a).logged]
    /\ UNCHANGED <<capacity, value, waiters, fut, must_cancel, pc, kind, conn,
                   acquires, releases, chunks, response, answer, advisory,
                   dataVars, timeVars, request, forwarded>>

\* a unit of time passes for an InFlight call.  While the call awaits the
\* backend (the head, the next chunk, the unary reply) httpx's timer for
\* that one read runs, and the wait cannot outlast it; while the generator
\* is suspended at its yield no timer runs.
Tick(c) ==
    /\ IsChat(c)
    /\ pc[c] \in {"inflight", "opening", "reading", "yielded"}
    /\ elapsed[c] < MaxElapsed
    /\ pc[c] # "yielded" => idle[c] < RequestTimeout
    /\ elapsed' = [elapsed EXCEPT ![c] = @ + 1]
    /\ idle' = [idle EXCEPT ![c] = IF pc[c] = "yielded" THEN @ ELSE @ + 1]
    /\ UNCHANGED <<capacity, value, waiters, fut, must_cancel, pc, kind, conn,
                   acquires, releases, chunks, response, answer, advisory,
                   dataVars, sideVars>>

NetworkFailure == [type |-> "network", status |-> 0, body |-> ""]

\* timeout=self.timeout on the client: a read that has waited the whole
\* timeout raises httpx.ReadTimeout, a RequestError
ReadTimeout(c) ==
    /\ idle[c] = RequestTimeout
    /\ \/ StreamOpen(c, NetworkFailure)
       \/ StreamReadError(c)

\* a handler that validates the body inside the guarded block: the slot it
\* took is still held when the validation error is raised
RejectMalformedGuarded(c) ==
    /\ pc[c] = "pending"
    /\ \A d \in Calls : d < c => pc[d] # "pending"
    /\ value > 0
    /\ value' = value - 1
    /\ acquires' = [acquires EXCEPT ![c] = @ + 1]
    /\ pc' = [pc EXCEPT ![c] = "rejected"]
    /\ kind' = [kind EXCEPT ![c] = "invalid"]
    /\ response' = [response EXCEPT ![c] =
                        [status |-> ValidationErrorStatus, detail |-> <<>>]]
    /\ UNCHANGED <<capacity, waiters, fut, must_cancel, conn,
                   releases, chunks, answer, advisory,
                   dataVars, timeVars, sideVars>>

\* POST /v1/chat/completions with a body that ChatCompletionRequest does not
\* accept: the framework validates the declared parameter before it calls
\* chat_completions, so the handler body (and its "async with semaphore")
\* never runs and the validation error is the reply
RejectMalformed(c) ==
    /\ pc[c] = "pending"
    /\ \A d \in Calls : d < c => pc[d] # "pending"
    /\ pc' = [pc EXCEPT ![c] = "rejected"]
    /\ kind' = [kind EXCEPT ![c] = "invalid"]
    /\ response' = [response EXCEPT ![c] =
                        [status |-> ValidationErrorStatus, detail |-> <<>>]]
    /\ UNCHANGED <<capacity, value, waiters, fut, must_cancel, conn, acquires,
                   releases, chunks, answer, advisory,
                   dataVars, timeVars, sideVars>>

Next ==
    \/ \E c \in Calls, k \in Kinds : Arrive(c, k)
    \/ \E c \in Calls : CancelQueued(c)
    \/ \E c \in Calls : Resume(c)
    \/ \E c \in Calls, a \in BackendAnswers : UnaryFinish(c, a)
    \/ \E c \in Calls, a \in BackendAnswers : FallbackFinish(c, a)
    \/ \E c \in Calls, a \in BackendAnswers : StreamOpen(c, a)
    \/ \E c \in Calls : StreamChunk(c)
    \/ \E c \in Calls : ConsumerNext(c)
    \/ \E c \in Calls : StreamEnd(c)
    \/ \E c \in Calls : StreamReadError(c)
    \/ \E c \in Calls : CancelInFlight(c)
    \/ \E c \in Calls : ConsumerStops(c)
    \/ \E c \in Calls : GeneratorClose(c)

Spec == Init /\ [][Next]_vars

\* a step of call c's backend call or of its consumer: what an InFlight
\* call does on its way out of InFlight
Progress(c) ==
    \/ \E a \in BackendAnswers : UnaryFinish(c, a)
    \/ \E a \in BackendAnswers : FallbackFinish(c, a)
    \/ \E a \in BackendAnswers : StreamOpen(c, a)
    \/ StreamChunk(c)
    \/ ConsumerNext(c)
    \/ StreamEnd(c)
    \/ StreamReadError(c)
    \/ ConsumerStops(c)
    \/ GeneratorClose(c)

\* the event loop runs every task that is ready (a woken or cancelled
\* waiter), and every backend call goes on until it has ended
Fairness ==
    \A c \in Calls : WF_vars(Resume(c)) /\ WF_vars(Progress(c))

\* the admission gate under unary chat-completion calls alone
NextUnary ==
    \/ \E c \in Calls : Arrive(c, "unary")
    \/ \E c \in Calls : CancelQueued(c)
    \/ \E c \in Calls : Resume(c)
    \/ \E c \in Calls, a \in BackendAnswers : UnaryFinish(c, a)
    \/ \E c \in Calls : CancelInFlight(c)

SpecFair == Init /\ [][NextUnary]_vars /\ Fairness

\* every kind of call, under the same fairness
SpecFairAll == Init /\ [][Next]_vars /\ Fairness

\* the chat-completion endpoint, unary and streaming, with the validation
\* of the inbound body that precedes the handler
NextChat ==
    \/ \E c \in Calls, k \in {"unary", "stream"} : Arrive(c, k)
    \/ \E c \in Calls : RejectMalformed(c)
    \/ \E c \in Calls : CancelQueued(c)
    \/ \E c \in Calls : Resume(c)
    \/ \E c \in Calls, a \in BackendAnswers : UnaryFinish(c, a)
    \/ \E c \in Calls, a \in BackendAnswers : StreamOpen(c, a)
    \/ \E c \in Calls : StreamChunk(c)
    \/ \E c \in Calls : ConsumerNext(c)
    \/ \E c \in Calls : StreamEnd(c)
    \/ \E c \in Calls : StreamReadError(c)
    \/ \E c \in Calls : CancelInFlight(c)
    \/ \E c \in Calls : ConsumerStops(c)
    \/ \E c \in Calls : GeneratorClose(c)

SpecChat == Init /\ [][NextChat]_vars

\* the admission gate under unary calls with the queue status read beside
NextMonitored ==
    \/ NextUnary
    \/ QueueStatus

SpecMonitored == Init /\ [][NextMonitored]_vars

\* the body building of chat_completions over every accepted request
InitBody ==
    /\ Gateway
    /\ request \in Requests
    /\ forwarded = NoBody
    /\ lifecycle = Serving

SpecBody == InitBody /\ [][BuildRequestBody]_vars

\* the application before lifespan has run, registration enabled or not
InitStartup ==
    /\ Gateway
    /\ request = NoRequest
    /\ forwarded = NoBody
    /\ lifecycle \in [phase : {"starting"}, dns_enabled : BOOLEAN, dns_posts : {0},
                       registered : {FALSE}, logged : {"nothing"}]

StartupStep ==
    \/ StartUp
    \/ \E a \in BackendAnswers : RegistrationAnswer(a)

\* requests are served once lifespan has yielded
NextStartup ==
    \/ StartUp
    \/ \E a \in BackendAnswers : RegistrationAnswer(a)
    \/ lifecycle.phase = "serving" /\ NextUnary

\* the event loop runs lifespan, and the registration POST ends: answered,
\* refused, or timed out after its 10 seconds
SpecStartup == InitStartup /\ [][NextStartup]_vars /\ WF_vars(StartupStep)

\* streaming calls with time passing
NextTimed ==
    \/ \E c \in Calls : Arrive(c, "stream")
    \/ \E c \in Calls : Resume(c)
    \/ \E c \in Calls, a \in BackendAnswers : StreamOpen(c, a)
    \/ \E c \in Calls : StreamChunk(c)
    \/ \E c \in Calls : ConsumerNext(c)
    \/ \E c \in Calls : StreamEnd(c)
    \/ \E c \in Calls : Tick(c)
    \/ \E c \in Calls : ReadTimeout(c)

SpecTimed == Init /\ [][NextTimed]_vars

\* the gateway with its advisory endpoints served beside the calls
NextAdvisory ==
    \/ Next
    \/ \E a \in BackendAnswers : HealthCheck(a)
    \/ \E a \in BackendAnswers : ListModels(a)
    \/ QueueStatus

SpecAdvisory == Init /\ [][NextAdvisory]_vars

\* ------------------------------------------------------------- claims

Streams == {c \in Calls : kind[c] = "stream"}
Unaries == {c \in Calls : kind[c] = "unary"}
ChatCalls == {c \in Calls : IsChat(c)}

\* a stream whose backend stream is open: head awaited or received, chunks
\* being read, handed over, or left behind by a consumer that stopped
OpenStreams == {c \in Streams : pc[c] \in {"opening", "reading", "yielded", "dropped"}}

\* C1: at most capacity chat-completion calls, unary and streaming counted
\* together, are InFlight; only InFlight chat calls have a backend
\* connection; and while capacity calls are InFlight every other unfinished
\* chat call is Queued and has not contacted the backend.
C1_AtMostCapacityInFlight ==
    /\ Cardinality(InFlight) <= capacity
    /\ \A c \in ChatCalls : conn[c] = "open" <=> c \in InFlight
    /\ Cardinality(InFlight) = capacity =>
         \A c \in ChatCalls \ InFlight :
            pc[c] \notin FinalStates => pc[c] = "queued" /\ conn[c] = "none"

C1_Witness ==
    /\ Cardinality(InFlight) = capacity
    /\ InFlight \cap Streams # {}
    /\ InFlight \cap Unaries # {}
    /\ \E c \in ChatCalls : pc[c] = "queued" /\ fut[c] = "pending"

\* C2: a call releases only what it acquired and at most once; a call that
\* has finished, with whatever outcome, has released exactly as often as it
\* acquired; a call InFlight has acquired once and not released; and once
\* every call has finished the available-slot count equals capacity.
C2_OneReleasePerAcquire ==
    /\ \A c \in Calls :
         /\ releases[c] <= acquires[c]
         /\ acquires[c] <= 1
         /\ pc[c] \in FinalStates => releases[c] = acquires[c]
         /\ c \in InFlight => acquires[c] = 1 /\ releases[c] = 0
    /\ (\A c \in Calls : pc[c] \in FinalStates) => value = capacity

C2_Witness ==
    /\ \A c \in Calls : pc[c] \in FinalStates /\ releases[c] = 1
    /\ \E c \in Calls : pc[c] = "cancelled"
    /\ \E c \in Calls : pc[c] = "backend_error"
    /\ \E c \in Calls : pc[c] = "backend_unavailable"
    /\ value = capacity

\* C3: a streaming call has its permit before its backend connection opens
\* and keeps it as long as the backend stream is open, stalled or not: the
\* open streams are counted out of the available slots, and a streaming
\* call has released only when it has ended, failed or been cancelled.
C3_StreamHoldsPermit ==
    /\ \A c \in Streams :
         /\ conn[c] = "open" => acquires[c] = 1 /\ releases[c] = 0
         /\ c \in OpenStreams => conn[c] = "open"
         /\ releases[c] > 0 => pc[c] \in FinalStates
    /\ value + Cardinality(OpenStreams) <= capacity

C3_Witness ==
    \E c \in Streams :
        /\ pc[c] = "reading"
        /\ chunks[c] >= 1
        /\ value = 0
        /\ \E d \in ChatCalls : pc[d] = "queued" /\ fut[d] = "pending"

\* a call to which Semaphore._wake_up_next has handed a slot and whose task
\* has not run since
Woken == {c \in Calls : pc[c] = "queued" /\ fut[c] = "done"}

\* C4: a streaming call cancelled while InFlight, at the head, between
\* chunks or at its yield after the consumer stopped, ends with its backend
\* connection closed and its permit released once; a stream left behind at
\* its yield can always be closed, and until then its connection is open
\* and its permit held.
C4_MidStreamCancelReleases ==
    \A c \in Streams :
        /\ pc[c] = "cancelled" /\ acquires[c] = 1 =>
              conn[c] = "closed" /\ releases[c] = 1
        /\ pc[c] = "dropped" =>
              conn[c] = "open" /\ releases[c] = 0 /\ ENABLED GeneratorClose(c)
        /\ releases[c] <= 1

C4_Witness ==
    /\ \E c \in Streams :
          pc[c] = "cancelled" /\ chunks[c] >= 1 /\ answer[c].type = "json"
            /\ conn[c] = "closed" /\ releases[c] = 1
    /\ \E c \in Streams :
          pc[c] = "cancelled" /\ chunks[c] = 0 /\ releases[c] = 1

\* C5, state part: a call whose pending acquire was cancelled holds no
\* permit and has no backend connection, then and after it has ended; and
\* no slot is lost: every slot is free, held by an InFlight call, or handed
\* to a waiter that has been woken.
C5_CancelledWaiterHoldsNothing ==
    /\ \A c \in ChatCalls :
         /\ pc[c] = "queued" /\ fut[c] = "cancelled" =>
               acquires[c] = 0 /\ conn[c] = "none"
         /\ pc[c] = "cancelled" /\ acquires[c] = 0 =>
               conn[c] = "none" /\ releases[c] = 0
    /\ value + Cardinality(InFlight) + Cardinality(Woken) = capacity

\* C5, step part: cancelling a pending acquire, and the cancelled task
\* leaving acquire(), change neither the available-slot count nor any
\* other call; a release made while a cancelled waiter is still in the
\* deque goes to a pending waiter or back to the pool, never to it.
C5_CancelStep ==
    \A c \in Calls :
        /\ pc[c] = "queued" /\ fut[c] = "pending" /\ fut'[c] = "cancelled" =>
              /\ value' = value
              /\ waiters' = waiters
              /\ acquires' = acquires
              /\ conn' = conn
        /\ pc[c] = "queued" /\ fut[c] = "cancelled" =>
              /\ fut'[c] = "cancelled" \/ pc'[c] = "cancelled"
              /\ pc'[c] = "cancelled" => value' = value
              /\ (\E d \in Calls : releases'[d] > releases[d]) =>
                    \/ value' = value + 1
                    \/ \E w \in Calls : fut[w] = "pending" /\ fut'[w] = "done"

\* C5: a chat-completion call cancelled while Queued gives up its pending
\* acquire without consuming a slot (state part and step part together).
C5_QueuedCancelConsumesNoSlot ==
    []C5_CancelledWaiterHoldsNothing /\ [][C5_CancelStep]_vars

C5_Witness ==
    \E c, d \in ChatCalls :
        /\ c < d
        /\ pc[c] = "queued" /\ fut[c] = "cancelled"
        /\ pc[d] = "queued" /\ fut[d] = "done"
        /\ \E h \in ChatCalls : releases[h] = 1

\* C6: a unary call that ended in a backend HTTP error or a network error
\* is answered with status 502, and whenever a unary call has been answered
\* with an error its permit is released and its connection closed.
C6_UnaryFailureIs502 ==
    \A c \in Unaries :
        /\ pc[c] \in {"backend_error", "backend_unavailable"} =>
              response[c].status = GatewayErrorStatus
        /\ response[c].status \notin {0, OkStatus} =>
              releases[c] = 1 /\ conn[c] = "closed" /\ c \notin InFlight

C6_Witness ==
    /\ \E c \in Unaries :
          /\ pc[c] = "backend_error"
          /\ response[c].status = GatewayErrorStatus
          /\ releases[c] = 1
    /\ \E c \in Unaries :
          /\ pc[c] = "backend_unavailable"
          /\ response[c].status = GatewayErrorStatus
          /\ releases[c] = 1

\* C7: a streaming call whose backend call failed with an error status or a
\* network error is answered with status 502, as a unary failure is.
C7_StreamFailureIs502 ==
    \A c \in Streams :
        pc[c] \in {"backend_error", "backend_unavailable"} =>
            response[c].status = GatewayErrorStatus

\* C8: when the backend answered a chat-completion call with an error
\* status, the detail of the gateway's error response carries that status
\* code and the backend's response body.
C8_DetailCarriesStatusAndBody ==
    \A c \in ChatCalls :
        pc[c] = "backend_error" /\ response[c].status = GatewayErrorStatus =>
            /\ StatusText(answer[c].status) \in Range(response[c].detail)
            /\ answer[c].body \in Range(response[c].detail)

\* C9: every inference request at the backend holds a permit, those of the
\* /v1/{path} route included, so the backend never serves more than
\* capacity requests of the gateway at once.
C9_BackendLoadWithinCapacity ==
    /\ \A c \in Calls : conn[c] = "open" => acquires[c] = 1 /\ releases[c] = 0
    /\ Cardinality({c \in Calls : conn[c] = "open"}) <= capacity

\* C10: health_check raises nothing, whatever the backend does: every reply
\* of /health is a status payload, "ok" or the degraded "error".
C10_HealthCheckNeverRaises ==
    advisory.endpoint = "health" =>
        ~advisory.raised /\ advisory.status \in {"ok", "error"}

\* a chat call to which a slot has been granted: handed over by a wake-up,
\* or taken by its own acquire()
Granted(c) == fut[c] = "done" \/ acquires[c] >= 1

\* a call waiting in acquire() that has neither been woken nor cancelled
PendingWaiters == {c \in ChatCalls : pc[c] = "queued" /\ fut[c] = "pending"}

\* C19: slots are granted in order of arrival.  Calls arrive in the order
\* of their numbers, so while a call waits, neither woken nor cancelled, no
\* call that arrived after it has been granted a slot, whether from the
\* queue behind it or as a newcomer; and in the deque a woken waiter never
\* stands behind one that still waits.
C19_FifoAdmission ==
    /\ \A a \in PendingWaiters : \A b \in ChatCalls : a < b => ~Granted(b)
    /\ \A i, j \in 1..Len(waiters) :
          i < j /\ fut[waiters[j]] = "done" => fut[waiters[i]] # "pending"

C19_Witness ==
    \E a, b \in ChatCalls :
        /\ a < b
        /\ pc[a] = "queued" /\ fut[a] = "done"
        /\ b \in PendingWaiters
        /\ \E h \in ChatCalls : releases[h] = 1

\* a free slot and a call still waiting for one, side by side
FreeSlotBesideWaiter == value > 0 /\ PendingWaiters # {}

\* C18: when every InFlight call leaves InFlight in the end and ready tasks
\* get to run, every Queued call leaves the queue, InFlight unless it was
\* cancelled, and a free slot never stays beside a waiting call.
C18_NoStarvation ==
    /\ \A c \in Calls :
          (pc[c] = "queued") ~> (c \in InFlight \/ pc[c] = "cancelled")
    /\ \A c \in Calls :
          (pc[c] = "queued" /\ fut[c] = "done" /\ c \notin must_cancel)
              ~> (c \in InFlight \/ c \in must_cancel)
    /\ FreeSlotBesideWaiter ~> ~FreeSlotBesideWaiter

C18_Witness ==
    /\ InFlight = {}
    /\ \E c \in ChatCalls :
          /\ pc[c] = "queued" /\ fut[c] = "done" /\ c \notin must_cancel
          /\ \E h \in ChatCalls : h < c /\ releases[h] = 1
          /\ \E d \in ChatCalls : d < c /\ pc[d] = "cancelled" /\ acquires[d] = 0

IsPrefix(s, t) == Len(s) <= Len(t) /\ SubSeq(t, 1, Len(s)) = s

C13_RejectedHoldsNothing ==
    \A c \in Calls : pc[c] = "rejected" =>
        /\ response[c].status = ValidationErrorStatus
        /\ acquires[c] = 0 /\ releases[c] = 0
        /\ conn[c] = "none" /\ answer[c] = NoAnswer
        /\ fut[c] = "none"
        /\ \A i \in 1..Len(waiters) : waiters[i] # c

C13_RejectStep ==
    \A c \in Calls : pc[c] # "rejected" /\ pc'[c] = "rejected" =>
        /\ pc[c] = "pending"
        /\ UNCHANGED <<value, waiters, fut, must_cancel, conn, acquires,
                       releases, answer>>

C13_MalformedRejectedBeforeAcquire ==
    []C13_RejectedHoldsNothing /\ [][C13_RejectStep]_vars

C13_Witness ==
    \E c \in Calls :
        /\ pc[c] = "rejected"
        /\ value = 0
        /\ \E d \in PendingWaiters : d < c
        /\ \E h \in InFlight : h < c /\ kind[h] = "stream"

\* C11: list_models surfaces no failure: with a reachable backend the reply
\* is the backend's payload unchanged, with an unreachable backend it is the
\* list whose one entry is the default model.
C11_ListModelsNeverFails ==
    advisory.endpoint = "models" =>
        /\ ~advisory.raised
        /\ advisory.backend.type # "network" =>
              advisory.source = "backend" /\ advisory.body = advisory.backend.body
        /\ advisory.backend.type = "network" =>
              advisory.source = "synthetic" /\ advisory.data = <<DefaultModel>>

\* calls to which a permit is assigned: the InFlight ones, and the waiters a
\* release has woken (the slot was taken for them by the wake-up)
PermitHolders == InFlight \cup Woken

\* C14: every reply of /v1/queue/status gives max_concurrent as the capacity
\* and available_slots as capacity minus the permits held at that moment, a
\* value in 0..capacity; serving it changes nothing of the gate or the
\* calls; and it can be served in every state, an exhausted pool included.
C14_ReplyStep ==
    advisory' # advisory /\ advisory'.endpoint = "queue_status" =>
        /\ advisory'.max_concurrent = capacity
        /\ advisory'.available_slots = capacity - Cardinality(PermitHolders)
        /\ advisory'.available_slots \in 0..capacity
        /\ UNCHANGED <<capacity, value, waiters, fut, must_cancel, pc, kind,
                       conn, acquires, releases>>

C14_QueueStatusIsAdvisory ==
    /\ [](ENABLED QueueStatus)
    /\ [](value = capacity - Cardinality(PermitHolders))
    /\ [][C14_ReplyStep]_vars

C14_Witness ==
    /\ advisory.endpoint = "queue_status"
    /\ advisory.available_slots = 0
    /\ value = 0
    /\ PendingWaiters # {}
    /\ Woken # {}

\* C12: the body forwarded for a chat-completion request has the default
\* model when the caller gave no model field, the caller's model when one
\* was given, and every other field the caller gave, unrecognised ones
\* included, with the value given.
C12_BodyForwardedAsGiven ==
    forwarded.sent =>
        /\ request.model = "absent" => forwarded.model = DefaultModel
        /\ request.model # "absent" => forwarded.model = request.model
        /\ request.temperature # "absent" => forwarded.temperature = request.temperature
        /\ request.stream # "absent" => forwarded.stream = request.stream
        /\ request.extra # "absent" => forwarded.extra = request.extra
        /\ request.message_name # "absent" => forwarded.message_name = request.message_name

\* C17: startup reaches serving whatever the registration API does; no POST
\* is issued when registration is disabled and exactly one when it is
\* enabled; a failed registration is logged; the admission gate is at its
\* initial state until serving begins and no startup step changes it; and
\* once serving, a request is admitted.
C17_LifecycleInv ==
    /\ lifecycle.phase \in {"starting", "registering", "serving"}
    /\ lifecycle.dns_posts =
          IF lifecycle.dns_enabled /\ lifecycle.phase # "starting" THEN 1 ELSE 0
    /\ lifecycle.phase # "serving" =>
          /\ value = capacity /\ waiters = <<>>
          /\ \A c \in Calls : pc[c] = "pending"
    /\ lifecycle.phase = "serving" =>
          /\ lifecycle.dns_enabled /\ ~lifecycle.registered =>
                lifecycle.logged \in {"status_error", "network_error"}
          /\ pc[1] = "pending" => ENABLED Arrive(1, "unary")

C17_StartupStepFrame ==
    lifecycle' # lifecycle =>
        UNCHANGED <<capacity, value, waiters, fut, must_cancel, pc, acquires, releases>>

C17_StartupCompletes ==
    /\ <>(lifecycle.phase = "serving")
    /\ []C17_LifecycleInv
    /\ [][C17_StartupStepFrame]_vars

C17_Witness ==
    /\ lifecycle.phase = "serving"
    /\ lifecycle.dns_enabled /\ lifecycle.dns_posts = 1
    /\ ~lifecycle.registered /\ lifecycle.logged = "status_error"
    /\ \E c \in Calls : pc[c] = "completed"

\* C16: the request timeout bounds the whole backend call of a streaming
\* chat-completion: no stream is still open, or has completed normally,
\* with a backend call that has lasted longer than the timeout.
C16_TimeoutBoundsWholeCall ==
    \A c \in Streams :
        pc[c] \in InFlightStates \cup {"completed"} => elapsed[c] <= RequestTimeout

====
